---- MODULE Spec2Model ----
(***************************************************************************)
(* Pass-expiry computation of the pass purchase modal                      *)
(* (src/src/components/BotControlCard.tsx): parsePeriod, addMonthsAndDays, *)
(* computeExpiry, the expiry preview and handlePurchase; and the           *)
(* registration endpoint POST /api/register                                *)
(* (src/src/app/api/register/route.ts) with generateNextReferralCode;      *)
(* and doStart / doStop of BotControlCard.                                 *)
(*                                                                         *)
(* A JavaScript Date is modelled by its local-time fields                  *)
(* [year, month (0-based), date, hours, minutes, seconds, ms]; every       *)
(* construction goes through the day-number arithmetic of ECMAScript       *)
(* (MakeDay / YearFromTime / MonthFromTime / DateFromTime), so that        *)
(* out-of-range day and month arguments roll over as they do at run time.  *)
(* The local time zone is taken to have no daylight-saving transitions.    *)
(*                                                                         *)
(* A string is a sequence of characters; the characters that matter to     *)
(* the parser are named in ASCII:                                          *)
(*   "0".."9"  digits            "fw3"  FULLWIDTH DIGIT THREE (U+FF13)     *)
(*   "gae" U+AC1C  "wol" U+C6D4  "il" U+C77C   (the units gae-wol and il)  *)
(*   "mu" U+BB34   "je" U+C81C   "han" U+D55C  (the marker mu-je-han)      *)
(*   "jG" U+1100   "jAE" U+1162  (conjoining jamo, composing to "gae")     *)
(*   "sp" U+0020   "nbsp" U+00A0 "zwsp" U+200B "zwnj" U+200C "zwj" U+200D  *)
(*   "+"  and "x" (any other letter)                                       *)
(***************************************************************************)
EXTENDS Integers, Sequences, FiniteSets, TLC

VARIABLES
    base,       \* the Date handed to addMonthsAndDays / computeExpiry
    period,     \* the period string handed to parsePeriod / computeExpiry
    call        \* the last call made and what it returned

\* PassPurchaseModal
VARIABLES
    now,              \* the wall clock, what `new Date()` returns
    tz,               \* hours the browser's local time is ahead of UTC
    ticks,            \* days the clock has advanced
    selected,         \* props.selected
    connected,        \* account?.address is set
    usdtBalance,      \* props.usdtBalance
    loading, txHash, showSuccessModal, gasStepMsg,     \* useState
    previewExpired,   \* the useMemo value
    previewBase,      \* the `new Date()` the memo was computed from
    pc,               \* where handlePurchase is suspended
    userError,        \* the users lookup of handlePurchase gave an error
    commitNow,        \* the `new Date()` handed to computeExpiry at commit
    pendingInsert,    \* the enrollments row being inserted
    enrollments,      \* table enrollments
    transfers,        \* transfers that went through
    alerts,           \* alert() messages shown
    purchased,        \* calls of onPurchased
    attempts          \* runs of handlePurchase past its guards

\* POST /api/register
VARIABLES
    users,      \* table users, in insertion order
    req         \* per request: body, locals, where it is suspended, response

\* BotControlCard
VARIABLES
    refCode, hasApi, instId, coinQty,         \* props
    showStartModal, showStopModal, busy,      \* useState
    botPc,            \* where doStart / doStop is suspended, and its refCode
    bot_settings,     \* table bot_settings: enabled, per ref_code
    upserts,          \* the upserts sent and how each ended
    runningChanges,   \* the arguments of the calls of onRunningChange
    botCalls,         \* the calls of startBot / stopBot
    pendingCalls,     \* startBot / stopBot promises not settled yet
    warnings,         \* console.warn of a rejected startBot / stopBot
    botAlerts,        \* alert() messages shown
    clicks,           \* the calls of doStart / doStop
    propChanges       \* times the parent has changed refCode

fnVars == <<base, period, call>>

botVars ==
    <<refCode, hasApi, instId, coinQty, showStartModal, showStopModal, busy,
      botPc, bot_settings, upserts, runningChanges, botCalls, pendingCalls,
      warnings, botAlerts, clicks, propChanges>>

regVars == <<users, req>>

modalVars ==
    <<now, tz, ticks, selected, connected, usdtBalance, loading, txHash,
      showSuccessModal, gasStepMsg, previewExpired, previewBase, pc,
      userError, commitNow, pendingInsert, enrollments, transfers, alerts, purchased,
      attempts>>

vars == <<fnVars, modalVars, regVars, botVars>>

\* ------------------------------------------------------------------------
\* Bounds
\* ------------------------------------------------------------------------
MaxMonths == 15
MaxDays == 8
MaxLen == 3
MaxPhrases == 2
MaxTicks == 1
MaxAttempts == 1
MaxSeedRows == 2
MaxClicks == 2
MaxPropChanges == 1

\* ------------------------------------------------------------------------
\* ECMAScript Date arithmetic, as used by `new Date(y, m, d, ...)`,
\* getFullYear/getMonth/getDate, setDate and setFullYear
\* ------------------------------------------------------------------------
DayFromYear(y) ==
    365 * (y - 1970) + ((y - 1969) \div 4) - ((y - 1901) \div 100)
        + ((y - 1601) \div 400)

DaysInYear(y) == DayFromYear(y + 1) - DayFromYear(y)

InLeapYear(y) == IF DaysInYear(y) = 366 THEN 1 ELSE 0

\* First day-within-year of month m (0-based), for m in 0..12.
MonthStart(m, leap) ==
    LET tbl == <<0, 31, 59, 90, 120, 151, 181, 212, 243, 273, 304, 334, 365>>
    IN  tbl[m + 1] + (IF m >= 2 THEN leap ELSE 0)

\* MakeDay(year, month, date): month and date may lie outside their range.
MakeDay(year, month, date) ==
    LET ym == year + (month \div 12)
        mn == month % 12
    IN  DayFromYear(ym) + MonthStart(mn, InLeapYear(ym)) + date - 1

YearFromDay(day) ==
    CHOOSE y \in (1970 + (day \div 366))..(1971 + (day \div 365)) :
        DayFromYear(y) <= day /\ day < DayFromYear(y + 1)

MonthFromDay(day) ==
    LET y == YearFromDay(day)
        w == day - DayFromYear(y)
    IN  CHOOSE m \in 0..11 :
            MonthStart(m, InLeapYear(y)) <= w
                /\ w < MonthStart(m + 1, InLeapYear(y))

DateFromDay(day) ==
    LET y == YearFromDay(day)
        w == day - DayFromYear(y)
    IN  w - MonthStart(MonthFromDay(day), InLeapYear(y)) + 1

\* new Date(year, month, date, hours, minutes, seconds, ms) in local time.
\* A year of 0..99 means 1900 + year.
NewDate(year, month, date, hours, minutes, seconds, ms) ==
    LET yr  == IF 0 <= year /\ year <= 99 THEN 1900 + year ELSE year
        day == MakeDay(yr, month, date)
    IN  [year |-> YearFromDay(day), month |-> MonthFromDay(day),
         date |-> DateFromDay(day), hours |-> hours, minutes |-> minutes,
         seconds |-> seconds, ms |-> ms]

\* d.setDate(dt): the day-of-month is replaced, then the date is normalised.
SetDate(d, dt) ==
    LET day == MakeDay(d.year, d.month, dt)
    IN  [d EXCEPT !.year = YearFromDay(day), !.month = MonthFromDay(day),
                  !.date = DateFromDay(day)]

\* d.setFullYear(y): MakeDay(y, month of d, date of d), time kept.
SetFullYear(d, y) ==
    LET day == MakeDay(y, d.month, d.date)
    IN  [d EXCEPT !.year = YearFromDay(day), !.month = MonthFromDay(day),
                  !.date = DateFromDay(day)]

\* JavaScript's % truncates towards zero.
JSRem(a, b) == IF a >= 0 THEN a % b ELSE 0 - ((0 - a) % b)

Min(a, b) == IF a <= b THEN a ELSE b

\* ------------------------------------------------------------------------
\* addMonthsAndDays
\* ------------------------------------------------------------------------
\* Mutant: day 0 of the target month, the last day of the month before it.
endOfTargetMonthPrev(targetYear, normalizedMonth) ==
    NewDate(targetYear, normalizedMonth, 0, 0, 0, 0, 0).date

\* `new Date(targetYear, normalizedMonth + 1, 0).getDate()`
endOfTargetMonth(targetYear, normalizedMonth) ==
    NewDate(targetYear, normalizedMonth + 1, 0, 0, 0, 0, 0).date

\* Mutant: the day-of-month is not clamped to the target month.
afterMonthsNoClamp(b, months) ==
    LET targetMonth     == b.month + months
        targetYear      == b.year + (targetMonth \div 12)
        normalizedMonth == JSRem(JSRem(targetMonth, 12) + 12, 12)
    IN  NewDate(targetYear, normalizedMonth, b.date,
                b.hours, b.minutes, b.seconds, b.ms)

\* Mutant: the overflow of the month is not carried into the year.
afterMonthsNoCarry(b, months) ==
    LET targetMonth     == b.month + months
        normalizedMonth == JSRem(JSRem(targetMonth, 12) + 12, 12)
        finalDate       == Min(b.date, endOfTargetMonth(b.year, normalizedMonth))
    IN  NewDate(b.year, normalizedMonth, finalDate,
                b.hours, b.minutes, b.seconds, b.ms)

\* Mutant: the time of day is not handed to the constructor.
afterMonthsMidnight(b, months) ==
    LET targetMonth     == b.month + months
        targetYear      == b.year + (targetMonth \div 12)
        normalizedMonth == JSRem(JSRem(targetMonth, 12) + 12, 12)
        finalDate       == Min(b.date,
                               endOfTargetMonth(targetYear, normalizedMonth))
    IN  NewDate(targetYear, normalizedMonth, finalDate, 0, 0, 0, 0)

\* The month step: the Date `afterMonths` before setDate is applied.
afterMonths(b, months) ==
    LET targetMonth     == b.month + months
        targetYear      == b.year + (targetMonth \div 12)
        normalizedMonth == JSRem(JSRem(targetMonth, 12) + 12, 12)
        originalDate    == b.date
        finalDate       == Min(originalDate,
                               endOfTargetMonth(targetYear, normalizedMonth))
    IN  NewDate(targetYear, normalizedMonth, finalDate,
                b.hours, b.minutes, b.seconds, b.ms)

\* The reverse order: the day increment first, the month step second.
addDaysThenMonths(b, months, days) ==
    afterMonths(SetDate(b, b.date + days), months)

addMonthsAndDays(b, months, days) ==
    LET am == afterMonths(b, months)
    IN  SetDate(am, am.date + days)

\* ------------------------------------------------------------------------
\* Strings
\* ------------------------------------------------------------------------
Digits == {"0", "1", "2", "3", "4", "5", "6", "7", "8", "9"}

DigitVal(c) ==
    CASE c = "0" -> 0 [] c = "1" -> 1 [] c = "2" -> 2 [] c = "3" -> 3
      [] c = "4" -> 4 [] c = "5" -> 5 [] c = "6" -> 6 [] c = "7" -> 7
      [] c = "8" -> 8 [] c = "9" -> 9

\* null / undefined handed in place of a string
Null == <<"null">>

\* The unit phrases and the marker the parser looks for.
MonthUnit == <<"gae", "wol">>
DayUnit == <<"il">>
UnlimitedMarker == <<"mu", "je", "han">>

\* Does `pat` occur in `s` at index i (1-based)?
MatchesAt(s, i, pat) ==
    /\ i + Len(pat) - 1 <= Len(s)
    /\ \A k \in 1..Len(pat) : s[i + k - 1] = pat[k]

\* String.prototype.includes
Includes(s, pat) == \E i \in 1..(Len(s) + 1) : MatchesAt(s, i, pat)

\* String.prototype.normalize("NFKC"): compatibility characters are
\* replaced (a full-width digit by the digit, NO-BREAK SPACE by SPACE), and
\* a leading consonant jamo directly followed by a vowel jamo is composed
\* into the syllable.
NFKCChar(c) ==
    CASE c = "fw3"  -> "3"
      [] c = "nbsp" -> "sp"
      [] OTHER      -> c

RECURSIVE NFKCCompose(_)
NFKCCompose(s) ==
    IF Len(s) = 0 THEN <<>>
    ELSE IF Len(s) >= 2 /\ s[1] = "jG" /\ s[2] = "jAE"
         THEN <<"gae">> \o NFKCCompose(SubSeq(s, 3, Len(s)))
         ELSE <<s[1]>> \o NFKCCompose(Tail(s))

NFKC(s) == NFKCCompose([i \in 1..Len(s) |-> NFKCChar(s[i])])

\* The character class [\s U+00A0 U+200B U+200C U+200D] of the replace
StripClass == {"sp", "nbsp", "zwsp", "zwnj", "zwj"}

\* raw.replace(/[\s U+00A0 U+200B U+200C U+200D]+/g, "")
RECURSIVE Strip(_)
Strip(s) ==
    IF Len(s) = 0 THEN <<>>
    ELSE IF s[1] \in StripClass THEN Strip(Tail(s))
         ELSE <<s[1]>> \o Strip(Tail(s))

\* (period ?? "").toString().normalize("NFKC"), then the replace
NormalizedText(p) == Strip(NFKC(IF p = Null THEN <<>> ELSE p))

\* Number(m[1]) of the digits s[i..j-1]
RECURSIVE NumberOf(_, _, _)
NumberOf(s, i, j) ==
    IF j <= i THEN 0
    ELSE 10 * NumberOf(s, i, j - 1) + DigitVal(s[j - 1])

\* End (exclusive) of the run of digits that starts at i: what \d+ takes.
RECURSIVE DigitRunEnd(_, _)
DigitRunEnd(s, i) ==
    IF i <= Len(s) /\ s[i] \in Digits THEN DigitRunEnd(s, i + 1) ELSE i

\* Mutant: a unit that is not preceded by a digit counts as 1.
RECURSIVE SumMatchesBareUnit(_, _, _)
SumMatchesBareUnit(s, i, unit) ==
    IF i > Len(s) THEN 0
    ELSE IF s[i] \in Digits
         THEN LET j == DigitRunEnd(s, i)
              IN  IF MatchesAt(s, j, unit)
                  THEN NumberOf(s, i, j)
                         + SumMatchesBareUnit(s, j + Len(unit), unit)
                  ELSE SumMatchesBareUnit(s, j, unit)
         ELSE IF MatchesAt(s, i, unit)
              THEN 1 + SumMatchesBareUnit(s, i + Len(unit), unit)
              ELSE SumMatchesBareUnit(s, i + 1, unit)

\* Mutant: only the first match is taken (a regex without the g loop).
FirstMatchOnly(s, i, unit) ==
    IF \E k \in i..Len(s) : s[k] \in Digits
                              /\ MatchesAt(s, DigitRunEnd(s, k), unit)
    THEN LET k == CHOOSE k \in i..Len(s) :
                     /\ s[k] \in Digits
                     /\ MatchesAt(s, DigitRunEnd(s, k), unit)
                     /\ \A h \in i..(k - 1) :
                           ~(s[h] \in Digits
                               /\ MatchesAt(s, DigitRunEnd(s, h), unit))
         IN  NumberOf(s, k, DigitRunEnd(s, k))
    ELSE 0

\* while ((m = /(\d+)<unit>/g.exec(txt)) !== null) sum += Number(m[1]),
\* scanning from index i: the leftmost match is taken, \d+ is greedy, and
\* the next search starts where the match ended.
RECURSIVE SumMatches(_, _, _)
SumMatches(s, i, unit) ==
    IF i > Len(s) THEN 0
    ELSE IF s[i] \in Digits
         THEN LET j == DigitRunEnd(s, i)
              IN  IF MatchesAt(s, j, unit)
                  THEN NumberOf(s, i, j) + SumMatches(s, j + Len(unit), unit)
                  ELSE SumMatches(s, i + 1, unit)
         ELSE SumMatches(s, i + 1, unit)

\* Mutant: the unit phrases are scanned before the marker is looked for.
parsePeriodScanFirst(p) ==
    LET txt == NormalizedText(p)
        mo  == SumMatches(txt, 1, MonthUnit)
        dy  == SumMatches(txt, 1, DayUnit)
    IN  IF Includes(txt, UnlimitedMarker) /\ mo = 0 /\ dy = 0
        THEN [unlimited |-> TRUE, months |-> 0, days |-> 0]
        ELSE [unlimited |-> FALSE, months |-> mo, days |-> dy]

\* Mutant: the marker sets the flag but the unit phrases are still summed.
parsePeriodUnlimitedKeepsSums(p) ==
    LET txt == NormalizedText(p)
    IN  [unlimited |-> Includes(txt, UnlimitedMarker),
         months |-> SumMatches(txt, 1, MonthUnit),
         days |-> SumMatches(txt, 1, DayUnit)]

parsePeriod(p) ==
    LET txt == NormalizedText(p)
    IN  IF Includes(txt, UnlimitedMarker)
        THEN [unlimited |-> TRUE, months |-> 0, days |-> 0]
        ELSE [unlimited |-> FALSE,
              months |-> SumMatches(txt, 1, MonthUnit),
              days |-> SumMatches(txt, 1, DayUnit)]

\* ------------------------------------------------------------------------
\* computeExpiry
\* ------------------------------------------------------------------------
\* Mutant: months and days are handed over in the wrong order.
computeExpirySwapped(p, b) ==
    LET r == parsePeriod(p)
    IN  IF r.unlimited THEN SetFullYear(b, 2099)
        ELSE addMonthsAndDays(b, r.days, r.months)

computeExpiry(p, b) ==
    LET r == parsePeriod(p)
    IN  IF r.unlimited THEN SetFullYear(b, 2099)
        ELSE addMonthsAndDays(b, r.months, r.days)

\* ------------------------------------------------------------------------
\* Inputs
\* ------------------------------------------------------------------------
\* The period labels of the catalog: "3gae-wol + 7il", "6gae-wol + 1gae-wol",
\* "12gae-wol + 3gae-wol", "1gae-wol", "mu-je-han".
Label3M7D  == <<"3", "gae", "wol", "sp", "+", "sp", "7", "il">>
Label6M1M  == <<"6", "gae", "wol", "sp", "+", "sp", "1", "gae", "wol">>
Label12M3M == <<"1", "2", "gae", "wol", "sp", "+", "sp", "3", "gae", "wol">>
Label1M    == <<"1", "gae", "wol">>
LabelUnlimited == <<"mu", "je", "han">>

Catalog == {Label3M7D, Label6M1M, Label12M3M, Label1M, LabelUnlimited}

BaseYears == {2023, 2024}
BaseDates == {1, 15, 28, 29, 30, 31}
BaseTimes == {<<0, 0, 0, 0>>, <<10, 0, 0, 0>>, <<23, 59, 59, 999>>}

\* The base instants: every Date the constructor yields for these fields
\* (a day past the end of its month rolls over, as in `new Date(2023, 1, 30)`).
Bases ==
    {NewDate(y, m, dt, t[1], t[2], t[3], t[4]) :
        y \in BaseYears, m \in 0..11, dt \in BaseDates, t \in BaseTimes}

\* Strings handed to parsePeriod: every string of at most MaxLen characters,
\* every concatenation of at most MaxPhrases phrases, the catalog and null.
Alphabet ==
    {"1", "2", "fw3", "gae", "wol", "il", "mu", "je", "han", "jG", "jAE",
     "sp", "zwsp", "+", "x"}

Phrases ==
    {<<"1", "gae", "wol">>, <<"1", "2", "gae", "wol">>, <<"7", "il">>,
     <<"3", "jG", "jAE", "wol">>, <<"fw3", "il">>, <<"mu", "je", "han">>,
     <<"sp", "+", "sp">>, <<"x">>, <<"0", "7">>, <<"gae", "wol">>,
     <<"zwj">>, <<"nbsp">>}

RECURSIVE Strings(_)
Strings(n) ==
    IF n = 0 THEN {<<>>}
    ELSE LET S == Strings(n - 1)
         IN  S \cup {Append(t, c) : t \in {u \in S : Len(u) = n - 1},
                                    c \in Alphabet}

RECURSIVE PhraseStrings(_)
PhraseStrings(n) ==
    IF n = 0 THEN {<<>>}
    ELSE LET S == PhraseStrings(n - 1)
         IN  S \cup {t \o ph : t \in S, ph \in Phrases}

ParseInputs ==
    Catalog \cup {Null} \cup Strings(MaxLen) \cup PhraseStrings(MaxPhrases)

\* Period strings without any '<integer><unit>' and without the marker.
Malformed == {Null, <<>>, <<"x", "sp", "x">>, <<"gae", "wol">>, <<"x", "il">>}

DefaultBase == NewDate(2024, 5, 1, 10, 0, 0, 0)

NoCall == [op |-> "none"]

\* ------------------------------------------------------------------------
\* PassPurchaseModal
\* ------------------------------------------------------------------------
DigitChar(n) == <<"0", "1", "2", "3", "4", "5", "6", "7", "8", "9">>[n + 1]

\* "YYYY-MM-DD"; month is 1-based here.
DateString(y, m, d) ==
    <<DigitChar(y \div 1000), DigitChar((y \div 100) % 10),
      DigitChar((y \div 10) % 10), DigitChar(y % 10), "-",
      DigitChar(m \div 10), DigitChar(m % 10), "-",
      DigitChar(d \div 10), DigitChar(d % 10)>>

\* getKSTDateString(d): the calendar date, in Korea Standard Time (UTC+9),
\* of the instant d, as YYYY-MM-DD.  z is the local offset from UTC in hours.
getKSTDateString(d, z) ==
    LET h == d.hours + (9 - z)
        k == SetDate(d, d.date + (h \div 24))
    IN  DateString(k.year, k.month + 1, k.date)

\* Mutant: the preview formats the local calendar date.
PreviewExpiredLocalDate(p, b, z) ==
    IF parsePeriod(p).unlimited THEN <<"mu", "je", "han">>
    ELSE LET d == computeExpiry(p, b)
         IN  DateString(d.year, d.month + 1, d.date)

\* The body of the previewExpired memo, `new Date()` being b.
PreviewExpired(p, b, z) ==
    IF parsePeriod(p).unlimited THEN <<"mu", "je", "han">>
    ELSE getKSTDateString(computeExpiry(p, b), z)

\* Mutant: the commit formats the expiry of the instant the preview was
\* computed from.
PassExpiredAtFromPreview(p, b, z) ==
    getKSTDateString(computeExpiry(p, previewBase), z)

\* The pass_expired_at that handlePurchase writes, `new Date()` being b.
PassExpiredAt(p, b, z) == getKSTDateString(computeExpiry(p, b), z)

Passes ==
    {[name |-> "pass3", period |-> Label3M7D, price |-> 100],
     [name |-> "pass6", period |-> Label6M1M, price |-> 100],
     [name |-> "pass12", period |-> Label12M3M, price |-> 100],
     [name |-> "pass1", period |-> Label1M, price |-> 100],
     [name |-> "passU", period |-> LabelUnlimited, price |-> 100]}

ClockInits ==
    {NewDate(2024, 0, 30, 10, 0, 0, 0), NewDate(2023, 0, 31, 23, 59, 59, 999),
     NewDate(2024, 1, 29, 16, 30, 0, 0), NewDate(2023, 11, 31, 23, 59, 59, 999)}

UtcOffsets == {0, 9}

\* The requests to POST /api/register that are in flight together.
Requests == {1, 2}

\* A wallet address: its hex digits, and whether its letters are upper case.
\* NoWallet is the wallet_address of a body that has none.
NoWallet == [addr |-> 0, upper |-> FALSE]

Response(status, message, id, ref_code) ==
    [status |-> status, message |-> message, id |-> id, ref_code |-> ref_code]

NoResponse == Response(0, "", 0, <<>>)

NewRequest(wallet_address, email) ==
    [pc |-> "start", wallet_address |-> wallet_address, email |-> email,
     normalizedAddress |-> NoWallet, center_id |-> <<>>, ref_code |-> <<>>,
     inserts |-> 0, response |-> NoResponse]

\* No request has been sent and the table is empty.
RegisterIdle ==
    /\ users = <<>>
    /\ req = [r \in Requests |-> NewRequest(NoWallet, "")]

\* coinQty is a string or a number.  A number is NaN or a value counted in
\* ten-thousandths.
NaN == [nan |-> TRUE, value |-> 0]

Num(v) == [nan |-> FALSE, value |-> v]

QtyString(chars) == [kind |-> "string", chars |-> chars, num |-> NaN]

QtyNumber(num) == [kind |-> "number", chars |-> <<>>, num |-> num]

BotRefCodes == {"MK1001"}

BotIdle == [op |-> "idle", refCode |-> ""]

\* BotControlCard is not mounted.
BotUnmounted ==
    /\ refCode = ""
    /\ hasApi = FALSE
    /\ instId = ""
    /\ coinQty = QtyString(<<>>)
    /\ showStartModal = FALSE
    /\ showStopModal = FALSE
    /\ busy = FALSE
    /\ botPc = BotIdle
    /\ bot_settings = [c \in BotRefCodes |-> "none"]
    /\ upserts = <<>>
    /\ runningChanges = <<>>
    /\ botCalls = <<>>
    /\ pendingCalls = 0
    /\ warnings = 0
    /\ botAlerts = {}
    /\ clicks = <<>>
    /\ propChanges = 0

NoRow == [pass_type |-> "none"]
NoDate == [year |-> 0]
NoUser == [ref_code |-> "null"]

\* The modal is not mounted.
ModalUnmounted ==
    /\ now = DefaultBase
    /\ tz = 9
    /\ ticks = 0
    /\ selected = [name |-> "pass1", period |-> Label1M, price |-> 100]
    /\ connected = FALSE
    /\ usdtBalance = 0
    /\ loading = FALSE
    /\ txHash = ""
    /\ showSuccessModal = FALSE
    /\ gasStepMsg = ""
    /\ previewExpired = <<>>
    /\ previewBase = NoDate
    /\ pc = "idle"
    /\ userError = FALSE
    /\ commitNow = NoDate
    /\ pendingInsert = NoRow
    /\ enrollments = <<>>
    /\ transfers = 0
    /\ alerts = {}
    /\ purchased = 0
    /\ attempts = 0

\* The modal after its first render: the memo has been computed.
Init ==
    /\ base = DefaultBase
    /\ period = <<>>
    /\ call = NoCall
    /\ now \in ClockInits
    /\ tz \in UtcOffsets
    /\ ticks = 0
    /\ selected \in Passes
    /\ connected \in BOOLEAN
    /\ usdtBalance \in {50, 100}
    /\ loading = FALSE
    /\ txHash = ""
    /\ showSuccessModal = FALSE
    /\ gasStepMsg = ""
    /\ previewExpired = PreviewExpired(selected.period, now, tz)
    /\ previewBase = now
    /\ pc = "idle"
    /\ userError = FALSE
    /\ commitNow = NoDate
    /\ pendingInsert = NoRow
    /\ enrollments = <<>>
    /\ transfers = 0
    /\ alerts = {}
    /\ purchased = 0
    /\ attempts = 0
    /\ RegisterIdle
    /\ BotUnmounted

insufficient == usdtBalance < selected.price

\* Time passes: the clock moves to the next day.
Tick ==
    /\ ticks < MaxTicks
    /\ ticks' = ticks + 1
    /\ now' = SetDate(now, now.date + 1)
    /\ UNCHANGED <<fnVars, regVars, botVars, userError, tz, selected, connected, usdtBalance, loading,
                   txHash, showSuccessModal, gasStepMsg, previewExpired,
                   previewBase, pc, commitNow, pendingInsert, enrollments,
                   transfers, alerts, purchased, attempts>>

\* The parent hands in another pass: selected.period changes and the memo
\* is computed again.
ChangeSelected ==
    /\ pc = "idle"
    /\ \E sel \in Passes \ {selected} :
          /\ selected' = sel
          /\ previewExpired' = PreviewExpired(sel.period, now, tz)
    /\ previewBase' = now
    /\ UNCHANGED <<fnVars, regVars, botVars, userError, now, tz, ticks, connected, usdtBalance, loading,
                   txHash, showSuccessModal, gasStepMsg, pc, commitNow,
                   pendingInsert, enrollments, transfers, alerts, purchased,
                   attempts>>

\* catch + finally of handlePurchase
PurchaseFailed ==
    /\ alerts' = alerts \cup {"failed"}
    /\ gasStepMsg' = ""
    /\ loading' = FALSE
    /\ pc' = "idle"
    /\ UNCHANGED <<fnVars, regVars, botVars, userError, now, tz, ticks, selected, connected, usdtBalance,
                   txHash, showSuccessModal, previewExpired, previewBase,
                   commitNow, pendingInsert, enrollments, transfers,
                   purchased, attempts>>

\* Mutant: the handler does not look at the wallet.
HandlePurchaseNoWalletCheck ==
    /\ pc = "idle"
    /\ ~(insufficient \/ loading)
    /\ attempts < MaxAttempts
    /\ loading' = TRUE
    /\ gasStepMsg' = "preparing"
    /\ pc' = "grantGas"
    /\ attempts' = attempts + 1
    /\ UNCHANGED <<fnVars, regVars, botVars, userError, now, tz, ticks, selected, connected,
                   usdtBalance, txHash, showSuccessModal, previewExpired,
                   previewBase, commitNow, pendingInsert, enrollments,
                   transfers, alerts, purchased>>

\* The pay button is clicked (it is disabled while insufficient or loading):
\* handlePurchase runs up to the fetch of ensureGasIfNeeded.
HandlePurchase ==
    /\ pc = "idle"
    /\ ~(insufficient \/ loading)
    /\ attempts < MaxAttempts
    /\ IF ~connected
       THEN /\ alerts' = alerts \cup {"noWallet"}
            /\ UNCHANGED <<loading, gasStepMsg, pc, attempts>>
       ELSE IF insufficient
       THEN /\ alerts' = alerts \cup {"insufficient"}
            /\ UNCHANGED <<loading, gasStepMsg, pc, attempts>>
       ELSE /\ loading' = TRUE
            /\ gasStepMsg' = "preparing"
            /\ pc' = "grantGas"
            /\ attempts' = attempts + 1
            /\ UNCHANGED alerts
    /\ UNCHANGED <<fnVars, regVars, botVars, userError, now, tz, ticks, selected, connected, usdtBalance,
                   txHash, showSuccessModal, previewExpired, previewBase,
                   commitNow, pendingInsert, enrollments, transfers,
                   purchased>>

\* /api/grant-gas cannot be reached, or answers with !res.ok or !data.ok.
GrantGasFailed ==
    /\ pc = "grantGas"
    /\ PurchaseFailed

\* data.skipped: ensureGasIfNeeded returns and the transfer is sent.
GrantGasSkipped ==
    /\ pc = "grantGas"
    /\ gasStepMsg' = ""
    /\ pc' = "sendTransaction"
    /\ UNCHANGED <<fnVars, regVars, botVars, userError, now, tz, ticks, selected, connected, usdtBalance,
                   loading, txHash, showSuccessModal, previewExpired,
                   previewBase, commitNow, pendingInsert, enrollments,
                   transfers, alerts, purchased, attempts>>

\* Neither skipped nor a tx hash: ensureGasIfNeeded throws.
GrantGasTxMissing ==
    /\ pc = "grantGas"
    /\ PurchaseFailed

\* A tx hash: its receipt is awaited.
GrantGasSent ==
    /\ pc = "grantGas"
    /\ gasStepMsg' = "waiting"
    /\ pc' = "waitForReceipt"
    /\ UNCHANGED <<fnVars, regVars, botVars, userError, now, tz, ticks, selected, connected, usdtBalance,
                   loading, txHash, showSuccessModal, previewExpired,
                   previewBase, commitNow, pendingInsert, enrollments,
                   transfers, alerts, purchased, attempts>>

WaitForReceiptDone ==
    /\ pc = "waitForReceipt"
    /\ gasStepMsg' = ""
    /\ pc' = "sendTransaction"
    /\ UNCHANGED <<fnVars, regVars, botVars, userError, now, tz, ticks, selected, connected, usdtBalance,
                   loading, txHash, showSuccessModal, previewExpired,
                   previewBase, commitNow, pendingInsert, enrollments,
                   transfers, alerts, purchased, attempts>>

WaitForReceiptFailed ==
    /\ pc = "waitForReceipt"
    /\ PurchaseFailed

\* sendTransaction resolves: the hash and the success modal are shown and
\* the user row is looked up.
SendTransactionDone ==
    /\ pc = "sendTransaction"
    /\ transfers' = transfers + 1
    /\ txHash' = "0xtx"
    /\ showSuccessModal' = TRUE
    /\ pc' = "selectUser"
    /\ UNCHANGED <<fnVars, regVars, botVars, userError, now, tz, ticks, selected, connected, usdtBalance,
                   loading, gasStepMsg, previewExpired, previewBase,
                   commitNow, pendingInsert, enrollments, alerts, purchased,
                   attempts>>

SendTransactionFailed ==
    /\ pc = "sendTransaction"
    /\ PurchaseFailed

\* Mutant: an error of the users lookup is thrown.
SelectUserDoneThrows ==
    /\ pc = "selectUser"
    /\ \E user \in {NoUser, [ref_code |-> "MK1001"]}, err \in BOOLEAN :
          /\ err => user = NoUser
          /\ IF err
             THEN /\ userError' = TRUE
                  /\ alerts' = alerts \cup {"failed"}
                  /\ gasStepMsg' = ""
                  /\ loading' = FALSE
                  /\ pc' = "idle"
                  /\ UNCHANGED <<commitNow, pendingInsert>>
             ELSE /\ userError' = FALSE
                  /\ pendingInsert' =
                       [ref_code |-> user.ref_code,
                        pass_type |-> selected.name,
                        pass_expired_at |->
                            PassExpiredAt(selected.period, now, tz),
                        memo |-> "paid",
                        tuition |-> selected.price]
                  /\ commitNow' = now
                  /\ pc' = "insertEnrollment"
                  /\ UNCHANGED <<alerts, gasStepMsg, loading>>
    /\ UNCHANGED <<fnVars, regVars, botVars, now, tz, ticks, selected, connected, usdtBalance,
                   txHash, showSuccessModal, previewExpired, previewBase,
                   enrollments, transfers, purchased, attempts>>

\* The users lookup answers (a row, no row, or an error that is only
\* logged): the expiry is computed from `new Date()` and the insert is sent.
SelectUserDone ==
    /\ pc = "selectUser"
    /\ \E user \in {NoUser, [ref_code |-> "MK1001"]}, err \in BOOLEAN :
          /\ err => user = NoUser
          /\ userError' = err
          /\ pendingInsert' =
               [ref_code |-> user.ref_code,
                pass_type |-> selected.name,
                pass_expired_at |-> PassExpiredAt(selected.period, now, tz),
                memo |-> "paid",
                tuition |-> selected.price]
    /\ commitNow' = now
    /\ pc' = "insertEnrollment"
    /\ UNCHANGED <<fnVars, regVars, botVars, now, tz, ticks, selected, connected, usdtBalance,
                   loading, txHash, showSuccessModal, gasStepMsg,
                   previewExpired, previewBase, enrollments, transfers,
                   alerts, purchased, attempts>>

\* The insert answers, with or without insertError (only logged);
\* onPurchased is called and the finally block runs.
InsertEnrollmentDone ==
    /\ pc = "insertEnrollment"
    /\ \E ok \in BOOLEAN :
          enrollments' = IF ok THEN Append(enrollments, pendingInsert)
                         ELSE enrollments
    /\ pendingInsert' = NoRow
    /\ userError' = FALSE
    /\ purchased' = purchased + 1
    /\ gasStepMsg' = ""
    /\ loading' = FALSE
    /\ pc' = "idle"
    /\ UNCHANGED <<fnVars, regVars, botVars, now, tz, ticks, selected, connected, usdtBalance,
                   txHash, showSuccessModal, previewExpired, previewBase,
                   commitNow, transfers, alerts, attempts>>

\* onClose of PurchaseSuccessModal
CloseSuccessModal ==
    /\ showSuccessModal
    /\ showSuccessModal' = FALSE
    /\ UNCHANGED <<fnVars, regVars, botVars, userError, now, tz, ticks, selected, connected, usdtBalance,
                   loading, txHash, gasStepMsg, previewExpired, previewBase,
                   pc, commitNow, pendingInsert, enrollments, transfers,
                   alerts, purchased, attempts>>

Next ==
    \/ Tick
    \/ ChangeSelected
    \/ HandlePurchase
    \/ GrantGasFailed
    \/ GrantGasSkipped
    \/ GrantGasTxMissing
    \/ GrantGasSent
    \/ WaitForReceiptDone
    \/ WaitForReceiptFailed
    \/ SendTransactionDone
    \/ SendTransactionFailed
    \/ SelectUserDone
    \/ InsertEnrollmentDone
    \/ CloseSuccessModal

Spec == Init /\ [][Next]_vars

\* ------------------------------------------------------------------------
\* POST /api/register
\* ------------------------------------------------------------------------
QueryLimit == 2000
StartNum == 1000

Max2(a, b) == IF a >= b THEN a ELSE b

\* Mutant: the address is kept as it was sent.
toLowerCaseKeepsCase(w) == w

toLowerCase(w) == [w EXCEPT !.upper = FALSE]

\* The decimal digits of n, as a template literal writes them.
RECURSIVE DecimalString(_)
DecimalString(n) ==
    IF n < 10 THEN <<DigitChar(n)>>
    ELSE DecimalString(n \div 10) \o <<DigitChar(n % 10)>>

\* `MK${n}`
RefCode(n) == <<"M", "K">> \o DecimalString(n)

\* ilike "MK%"
IlikeMK(code) ==
    /\ Len(code) >= 2
    /\ code[1] \in {"M", "m"}
    /\ code[2] \in {"K", "k"}

\* parseInt of the digits that /^MK(\d+)$/ captures; -1 when the code does
\* not match (the row is skipped).
RefNumber(code) ==
    IF /\ Len(code) >= 3
       /\ code[1] = "M"
       /\ code[2] = "K"
       /\ \A i \in 3..Len(code) : code[i] \in Digits
    THEN NumberOf(code, 3, Len(code) + 1)
    ELSE -1

\* The largest of nums[lo..hi] that is below bound; -2 when there is none.
RECURSIVE MaxBelow(_, _, _, _)
MaxBelow(nums, lo, hi, bound) ==
    IF lo > hi THEN -2
    ELSE IF lo = hi THEN (IF nums[lo] < bound THEN nums[lo] ELSE -2)
    ELSE LET mid == (lo + hi) \div 2
         IN  Max2(MaxBelow(nums, lo, mid, bound),
                  MaxBelow(nums, mid + 1, hi, bound))

\* The values below bound that can be the largest of k of the nums: the
\* ones that have at least k of the nums at or below them.
RECURSIVE LargestOfSome(_, _, _)
LargestOfSome(nums, k, bound) ==
    LET m == MaxBelow(nums, 1, Len(nums), bound)
    IN  IF m = -2 \/ Cardinality({i \in 1..Len(nums) : nums[i] <= m}) < k
        THEN {}
        ELSE {m} \cup LargestOfSome(nums, k, m)

\* What maxNum can be after the forEach: the query has no ORDER BY, so when
\* more than QueryLimit rows match it answers with any QueryLimit of them.
MaxNums(table) ==
    LET codes == SelectSeq([i \in 1..Len(table) |-> table[i].ref_code],
                           IlikeMK)
        nums  == [i \in 1..Len(codes) |-> RefNumber(codes[i])]
        k     == Min(QueryLimit, Len(codes))
    IN  IF Len(codes) = 0 THEN {StartNum}
        ELSE {Max2(StartNum, m) : m \in LargestOfSome(nums, k, 1000000000)}

\* The codes generateNextReferralCode can return on a table.
generateNextReferralCode(table) == {RefCode(m + 1) : m \in MaxNums(table)}

DefaultCenter == RefCode(1001)

\* Rows 1..n of a table filled by n registrations one after the other.
SeedRow(i) ==
    [id |-> i, wallet_address |-> [addr |-> i, upper |-> FALSE], email |-> "",
     ref_code |-> RefCode(StartNum + i), center_id |-> DefaultCenter]

SeedTable(n) == [i \in 1..n |-> SeedRow(i)]

SeedSizes == {0, MaxSeedRows, QueryLimit + 1}

NewAddrs == {9001, 9002}

Wallets ==
    {NoWallet, [addr |-> 1, upper |-> FALSE]}
        \cup {[addr |-> a, upper |-> FALSE] : a \in NewAddrs}
        \cup {[addr |-> 9001, upper |-> TRUE]}

Emails == {"", "a@x"}

InitRegister ==
    /\ base = DefaultBase
    /\ period = <<>>
    /\ call = NoCall
    /\ ModalUnmounted
    /\ BotUnmounted
    /\ users \in {SeedTable(n) : n \in SeedSizes}
    /\ req \in [Requests -> {NewRequest(w, e) : w \in Wallets, e \in Emails}]

Finish(q, response) == [q EXCEPT !.pc = "done", !.response = response]

Existing(row) == Response(200, "already registered", row.id, row.ref_code)

ServerError(message) == Response(500, message, 0, <<>>)

\* The row a request inserts; its id is given by the table.
NewRow(q, ref_code) ==
    [id |-> Len(users) + 1, wallet_address |-> q.normalizedAddress,
     email |-> q.email, ref_code |-> ref_code, center_id |-> q.center_id]

\* A request arrives: the body is read and the wallet address checked.
Post(r) ==
    LET q == req[r]
    IN  /\ q.pc = "start"
        /\ req' = [req EXCEPT ![r] =
                     IF q.wallet_address = NoWallet
                     THEN Finish(q, Response(400, "wallet required", 0, <<>>))
                     ELSE [q EXCEPT !.pc = "selectWallet",
                                    !.normalizedAddress =
                                        toLowerCase(q.wallet_address)]]
        /\ UNCHANGED <<users, fnVars, modalVars, botVars>>

\* The lookup by wallet address answers.
SelectByWallet(r) ==
    LET q    == req[r]
        hits == {i \in 1..Len(users) :
                    users[i].wallet_address = q.normalizedAddress}
    IN  /\ q.pc = "selectWallet"
        /\ req' = [req EXCEPT ![r] =
                     IF Cardinality(hits) > 1
                     THEN Finish(q, ServerError("lookup failed"))
                     ELSE IF hits # {}
                     THEN Finish(q, Existing(users[CHOOSE i \in hits : TRUE]))
                     ELSE IF q.email # ""
                     THEN [q EXCEPT !.pc = "selectEmail"]
                     ELSE [q EXCEPT !.pc = "selectReferrer"]]
        /\ UNCHANGED <<users, fnVars, modalVars, botVars>>

\* The lookup by email answers.
SelectByEmail(r) ==
    LET q    == req[r]
        hits == {i \in 1..Len(users) : users[i].email = q.email}
    IN  /\ q.pc = "selectEmail"
        /\ req' = [req EXCEPT ![r] =
                     IF Cardinality(hits) > 1
                     THEN Finish(q, ServerError("lookup failed"))
                     ELSE IF hits # {}
                     THEN Finish(q, Existing(users[CHOOSE i \in hits : TRUE]))
                     ELSE [q EXCEPT !.pc = "selectReferrer"]]
        /\ UNCHANGED <<users, fnVars, modalVars, botVars>>

\* The lookup of the referrer answers; ref_by is the default of the body.
SelectReferrer(r) ==
    LET q    == req[r]
        hits == {i \in 1..Len(users) : users[i].ref_code = DefaultCenter}
    IN  /\ q.pc = "selectReferrer"
        /\ req' = [req EXCEPT ![r] =
                     IF Cardinality(hits) > 1
                     THEN Finish(q, ServerError("referrer lookup failed"))
                     ELSE [q EXCEPT
                             !.pc = "generate",
                             !.center_id =
                                 IF hits # {} /\
                                    users[CHOOSE i \in hits : TRUE].center_id
                                        # <<>>
                                 THEN users[CHOOSE i \in hits : TRUE].center_id
                                 ELSE DefaultCenter]]
        /\ UNCHANGED <<users, fnVars, modalVars, botVars>>

\* generateNextReferralCode answers, before the insert or before the retry.
GenerateNextReferralCode(r) ==
    LET q == req[r]
    IN  /\ q.pc \in {"generate", "generateRetry"}
        /\ \E code \in generateNextReferralCode(users) :
              req' = [req EXCEPT ![r] =
                        [q EXCEPT !.ref_code = code,
                                  !.pc = IF q.pc = "generate" THEN "insert"
                                         ELSE "insertRetry"]]
        /\ UNCHANGED <<users, fnVars, modalVars, botVars>>

\* The unique index users_ref_code_uq refuses the row.
RefCodeTaken(code) == \E i \in 1..Len(users) : users[i].ref_code = code

\* The first insert answers.
Insert(r) ==
    LET q == req[r]
    IN  /\ q.pc = "insert"
        /\ IF RefCodeTaken(q.ref_code)
           THEN /\ req' = [req EXCEPT ![r] =
                             [q EXCEPT !.pc = "generateRetry",
                                       !.inserts = q.inserts + 1]]
                /\ UNCHANGED users
           ELSE /\ users' = Append(users, NewRow(q, q.ref_code))
                /\ req' = [req EXCEPT ![r] =
                             Finish([q EXCEPT !.inserts = q.inserts + 1],
                                    Response(200, "registered",
                                             Len(users) + 1, q.ref_code))]
        /\ UNCHANGED <<fnVars, modalVars, botVars>>

\* The second insert answers.
InsertRetry(r) ==
    LET q == req[r]
    IN  /\ q.pc = "insertRetry"
        /\ IF RefCodeTaken(q.ref_code)
           THEN /\ req' = [req EXCEPT ![r] =
                             Finish([q EXCEPT !.inserts = q.inserts + 1],
                                    ServerError("users_ref_code_uq"))]
                /\ UNCHANGED users
           ELSE /\ users' = Append(users, NewRow(q, q.ref_code))
                /\ req' = [req EXCEPT ![r] =
                             Finish([q EXCEPT !.inserts = q.inserts + 1],
                                    Response(200, "registered",
                                             Len(users) + 1, q.ref_code))]
        /\ UNCHANGED <<fnVars, modalVars, botVars>>

NextRegister ==
    \E r \in Requests :
        \/ Post(r)
        \/ SelectByWallet(r)
        \/ SelectByEmail(r)
        \/ SelectReferrer(r)
        \/ GenerateNextReferralCode(r)
        \/ Insert(r)
        \/ InsertRetry(r)

SpecRegister == InitRegister /\ [][NextRegister]_vars

\* Requests sent one after the other: a request takes its steps while no
\* other is in flight.
NotInFlight(r) == req[r].pc \in {"start", "done"}

NextSequential ==
    \E r \in Requests :
        /\ \A o \in Requests \ {r} : NotInFlight(o)
        /\ \/ Post(r)
           \/ SelectByWallet(r)
           \/ SelectByEmail(r)
           \/ SelectReferrer(r)
           \/ GenerateNextReferralCode(r)
           \/ Insert(r)
           \/ InsertRetry(r)

SpecSequential == InitRegister /\ [][NextSequential]_vars

\* ------------------------------------------------------------------------
\* BotControlCard: doStart and doStop
\* ------------------------------------------------------------------------
RECURSIVE TrimStart(_)
TrimStart(s) == IF s # <<>> /\ Head(s) = "sp" THEN TrimStart(Tail(s)) ELSE s

RECURSIVE TrimEnd(_)
TrimEnd(s) ==
    IF s # <<>> /\ s[Len(s)] = "sp" THEN TrimEnd(SubSeq(s, 1, Len(s) - 1))
    ELSE s

\* The first four decimals, as a count of ten-thousandths.
Decimals4(frac) ==
    NumberOf([i \in 1..4 |-> IF i <= Len(frac) THEN frac[i] ELSE "0"], 1, 5)

\* Number(s) of a string: blanks around are dropped, the empty string is 0,
\* a decimal literal with an optional sign is its value, the rest is NaN.
StringToNumber(chars) ==
    LET t    == TrimEnd(TrimStart(chars))
        sign == t # <<>> /\ t[1] \in {"-", "+"}
        u    == IF sign THEN Tail(t) ELSE t
        dots == {i \in 1..Len(u) : u[i] = "."}
        dot  == IF dots = {} THEN Len(u) + 1
                ELSE CHOOSE i \in dots : \A j \in dots : i <= j
        int  == SubSeq(u, 1, dot - 1)
        frac == SubSeq(u, dot + 1, Len(u))
        abs  == 10000 * NumberOf(int, 1, Len(int) + 1) + Decimals4(frac)
    IN  IF t = <<>> THEN Num(0)
        ELSE IF /\ \A i \in 1..Len(int) : int[i] \in Digits
                /\ \A i \in 1..Len(frac) : frac[i] \in Digits
                /\ Len(int) + Len(frac) >= 1
        THEN Num(IF t[1] = "-" THEN 0 - abs ELSE abs)
        ELSE NaN

\* Number(coinQty)
qtyNum ==
    IF coinQty.kind = "number" THEN coinQty.num
    ELSE StringToNumber(coinQty.chars)

\* Mutant: any quantity that is not negative will do.
qtyValidFromZero == ~qtyNum.nan /\ qtyNum.value >= 0

\* !Number.isNaN(qtyNum) && qtyNum >= 0.001
qtyValid == ~qtyNum.nan /\ 1000 * qtyNum.value >= 10000

\* The quantities the parent hands over that are numbers >= 0.001:
\* "0.001", "1", " 2 ", ".5", 0.001 and 3 ...
GoodQtys ==
    {QtyString(<<"0", ".", "0", "0", "1">>), QtyString(<<"1">>),
     QtyString(<<"sp", "2", "sp">>), QtyString(<<".", "5">>),
     QtyNumber(Num(10)), QtyNumber(Num(30000))}

\* ... and the ones that are not: "", "x", "0", "0.0009", "1x", "-1",
\* 0.0005 and NaN.
BadQtys ==
    {QtyString(<<>>), QtyString(<<"x">>), QtyString(<<"0">>),
     QtyString(<<"0", ".", "0", "0", "0", "9">>), QtyString(<<"1", "x">>),
     QtyString(<<"-", "1">>), QtyNumber(Num(5)), QtyNumber(NaN)}

InitBot ==
    /\ base = DefaultBase
    /\ period = <<>>
    /\ call = NoCall
    /\ ModalUnmounted
    /\ RegisterIdle
    /\ refCode \in BotRefCodes \cup {""}
    /\ hasApi \in BOOLEAN
    /\ instId \in {"", "XRP-USDT-SWAP"}
    /\ coinQty \in GoodQtys \cup BadQtys
    /\ showStartModal = FALSE
    /\ showStopModal = FALSE
    /\ busy = FALSE
    /\ botPc = BotIdle
    /\ bot_settings \in [BotRefCodes -> {"none", "true"}]
    /\ upserts = <<>>
    /\ runningChanges = <<>>
    /\ botCalls = <<>>
    /\ pendingCalls = 0
    /\ warnings = 0
    /\ botAlerts = {}
    /\ clicks = <<>>
    /\ propChanges = 0

\* The parent renders the card with another refCode.
RefCodeChange ==
    /\ propChanges < MaxPropChanges
    /\ propChanges' = propChanges + 1
    /\ refCode' \in (BotRefCodes \cup {""}) \ {refCode}
    /\ UNCHANGED <<fnVars, modalVars, regVars, hasApi, instId, coinQty,
                   showStartModal, showStopModal, busy, botPc, bot_settings,
                   upserts, runningChanges, botCalls, pendingCalls, warnings,
                   botAlerts, clicks>>

\* The buttons of the card; a modal that is open covers them.
ButtonsEnabled == refCode # "" /\ ~busy /\ ~showStartModal /\ ~showStopModal

OpenStartModal ==
    /\ ButtonsEnabled
    /\ showStartModal' = TRUE
    /\ UNCHANGED <<fnVars, modalVars, regVars, refCode, hasApi, instId,
                   coinQty, showStopModal, busy, botPc, bot_settings, upserts,
                   runningChanges, botCalls, pendingCalls, warnings, botAlerts,
                   clicks, propChanges>>

OpenStopModal ==
    /\ ButtonsEnabled
    /\ showStopModal' = TRUE
    /\ UNCHANGED <<fnVars, modalVars, regVars, refCode, hasApi, instId,
                   coinQty, showStartModal, busy, botPc, bot_settings, upserts,
                   runningChanges, botCalls, pendingCalls, warnings, botAlerts,
                   clicks, propChanges>>

\* The cancel button of either modal.
CancelModal ==
    /\ ~busy
    /\ showStartModal \/ showStopModal
    /\ showStartModal' = FALSE
    /\ showStopModal' = FALSE
    /\ UNCHANGED <<fnVars, modalVars, regVars, refCode, hasApi, instId,
                   coinQty, busy, botPc, bot_settings, upserts, runningChanges,
                   botCalls, pendingCalls, warnings, botAlerts, clicks,
                   propChanges>>

\* The confirm button of the start modal: doStart up to its await.
DoStart ==
    /\ showStartModal
    /\ ~busy
    /\ Len(clicks) < MaxClicks
    /\ clicks' = Append(clicks, "start")
    /\ IF refCode = ""
       THEN UNCHANGED <<busy, botPc, botAlerts>>
       ELSE IF ~hasApi
       THEN /\ botAlerts' = botAlerts \cup {"save the OKX API first"}
            /\ UNCHANGED <<busy, botPc>>
       ELSE IF instId = ""
       THEN /\ botAlerts' = botAlerts \cup {"save the instrument first"}
            /\ UNCHANGED <<busy, botPc>>
       ELSE IF ~qtyValid
       THEN /\ botAlerts' = botAlerts \cup {"coin_qty below 0.001"}
            /\ UNCHANGED <<busy, botPc>>
       ELSE /\ busy' = TRUE
            /\ botPc' = [op |-> "start", refCode |-> refCode]
            /\ UNCHANGED botAlerts
    /\ UNCHANGED <<fnVars, modalVars, regVars, refCode, hasApi, instId,
                   coinQty, showStartModal, showStopModal, bot_settings,
                   upserts, runningChanges, botCalls, pendingCalls, warnings,
                   propChanges>>

\* The confirm button of the stop modal: doStop up to its await.
DoStop ==
    /\ showStopModal
    /\ ~busy
    /\ Len(clicks) < MaxClicks
    /\ clicks' = Append(clicks, "stop")
    /\ IF refCode = ""
       THEN UNCHANGED <<busy, botPc>>
       ELSE /\ busy' = TRUE
            /\ botPc' = [op |-> "stop", refCode |-> refCode]
    /\ UNCHANGED <<fnVars, modalVars, regVars, refCode, hasApi, instId,
                   coinQty, showStartModal, showStopModal, bot_settings,
                   upserts, runningChanges, botCalls, pendingCalls, warnings,
                   botAlerts, propChanges>>

\* How an upsert can end: the row is written; the promise resolves with an
\* error and nothing is written; the promise rejects.
UpsertOutcomes == {"saved", "error", "thrown"}

\* The await of the upsert is over and the handler runs to its end.
\* enabled is "true" for doStart and "false" for doStop.
AfterUpsert(enabled, signal, done, failed, outcome) ==
    /\ upserts' = Append(upserts, [ref_code |-> botPc.refCode,
                                   enabled |-> enabled,
                                   outcome |-> outcome])
    /\ bot_settings' = IF outcome = "saved"
                       THEN [bot_settings EXCEPT ![botPc.refCode] = enabled]
                       ELSE bot_settings
    /\ IF outcome = "thrown"
       THEN /\ botAlerts' = botAlerts \cup {failed}
            /\ UNCHANGED <<runningChanges, botCalls, pendingCalls>>
       ELSE /\ runningChanges' = Append(runningChanges, enabled = "true")
            /\ botCalls' = Append(botCalls, signal)
            /\ pendingCalls' = pendingCalls + 1
            /\ botAlerts' = botAlerts \cup {done}
    /\ busy' = FALSE
    /\ botPc' = BotIdle
    /\ UNCHANGED <<fnVars, modalVars, regVars, refCode, hasApi, instId,
                   coinQty, warnings, clicks, propChanges>>

DoStartResumes ==
    /\ botPc.op = "start"
    /\ \E outcome \in UpsertOutcomes :
          AfterUpsert("true", "startBot", "bot started", "start failed",
                      outcome)
    /\ showStartModal' = FALSE
    /\ UNCHANGED showStopModal

DoStopResumes ==
    /\ botPc.op = "stop"
    /\ \E outcome \in UpsertOutcomes :
          AfterUpsert("false", "stopBot", "bot stopped", "stop failed",
                      outcome)
    /\ showStopModal' = FALSE
    /\ UNCHANGED showStartModal

\* A startBot / stopBot promise settles; a rejection is logged and no more.
BotCallSettles ==
    /\ pendingCalls > 0
    /\ pendingCalls' = pendingCalls - 1
    /\ \E rejected \in BOOLEAN :
          warnings' = IF rejected THEN warnings + 1 ELSE warnings
    /\ UNCHANGED <<fnVars, modalVars, regVars, refCode, hasApi, instId,
                   coinQty, showStartModal, showStopModal, busy, botPc,
                   bot_settings, upserts, runningChanges, botCalls, botAlerts,
                   clicks, propChanges>>

NextBot ==
    \/ RefCodeChange
    \/ OpenStartModal
    \/ OpenStopModal
    \/ CancelModal
    \/ DoStart
    \/ DoStop
    \/ DoStartResumes
    \/ DoStopResumes
    \/ BotCallSettles

SpecBot == InitBot /\ [][NextBot]_vars

\* ------------------------------------------------------------------------
\* Calls of addMonthsAndDays and computeExpiry on a base date.  The functions
\* are pure, so each behaviour makes one call from a fresh state.
\* ------------------------------------------------------------------------
InitDate ==
    /\ base \in Bases
    /\ period = <<>>
    /\ call = NoCall
    /\ ModalUnmounted
    /\ RegisterIdle
    /\ BotUnmounted

AddMonthsAndDays ==
    \E months \in 0..MaxMonths, days \in 0..MaxDays :
        /\ call = NoCall
        /\ call' = [op |-> "addMonthsAndDays", months |-> months, days |-> days,
                    afterMonths |-> afterMonths(base, months),
                    result |-> addMonthsAndDays(base, months, days)]
        /\ UNCHANGED <<base, period, modalVars, regVars, botVars>>

ComputeExpiry ==
    \E p \in Catalog \cup Malformed :
        /\ call = NoCall
        /\ period' = p
        /\ call' = [op |-> "computeExpiry", parsed |-> parsePeriod(p),
                    result |-> computeExpiry(p, base)]
        /\ UNCHANGED <<base, modalVars, regVars, botVars>>

NextDate == AddMonthsAndDays \/ ComputeExpiry

SpecDate == InitDate /\ [][NextDate]_vars

\* ------------------------------------------------------------------------
\* Calls of parsePeriod on a string
\* ------------------------------------------------------------------------
InitParse ==
    /\ base = DefaultBase
    /\ period \in ParseInputs
    /\ call = NoCall
    /\ ModalUnmounted
    /\ RegisterIdle
    /\ BotUnmounted

ParsePeriod ==
    /\ call = NoCall
    /\ call' = [op |-> "parsePeriod", result |-> parsePeriod(period)]
    /\ UNCHANGED <<base, period, modalVars, regVars, botVars>>

NextParse == ParsePeriod

SpecParse == InitParse /\ [][NextParse]_vars

\* ------------------------------------------------------------------------
\* Reference calendar, used to state the properties
\* ------------------------------------------------------------------------
IsLeap(y) == y % 4 = 0 /\ (y % 100 # 0 \/ y % 400 = 0)

LastDayOfMonth(y, m) ==
    IF m = 1 THEN (IF IsLeap(y) THEN 29 ELSE 28)
    ELSE IF m \in {3, 5, 8, 10} THEN 30 ELSE 31

\* The calendar day after d, time of day kept.
NextDay(d) ==
    IF d.date < LastDayOfMonth(d.year, d.month)
    THEN [d EXCEPT !.date = d.date + 1]
    ELSE IF d.month < 11
         THEN [d EXCEPT !.date = 1, !.month = d.month + 1]
         ELSE [d EXCEPT !.date = 1, !.month = 0, !.year = d.year + 1]

RECURSIVE PlusDays(_, _)
PlusDays(d, n) == IF n = 0 THEN d ELSE PlusDays(NextDay(d), n - 1)

Ymd(d) == <<d.year, d.month + 1, d.date>>

IsAdd == call.op = "addMonthsAndDays"

\* The month the month step aims at.
TargetYear == base.year + ((base.month + call.months) \div 12)
TargetMonth == (base.month + call.months) % 12

\* The month step has to clamp: the base day does not exist in the target month.
Clamps == base.date > LastDayOfMonth(TargetYear, TargetMonth)

\* C1: the month step of addMonthsAndDays stays in the target month and its
\* day-of-month is min(base day, days in the target month), leap years
\* honoured: 2024-01-31 + 1 month = 2024-02-29, 2023-01-31 + 1 month =
\* 2023-02-28.
C1_MonthEndClamp ==
    IsAdd =>
        /\ call.afterMonths.date
              = Min(base.date, LastDayOfMonth(TargetYear, TargetMonth))
        /\ call.afterMonths.month = TargetMonth
        /\ (Ymd(base) = <<2024, 1, 31>> /\ call.months = 1
              => Ymd(call.afterMonths) = <<2024, 2, 29>>)
        /\ (Ymd(base) = <<2023, 1, 31>> /\ call.months = 1
              => Ymd(call.afterMonths) = <<2023, 2, 28>>)

C1_Witness ==
    /\ IsAdd
    /\ Clamps
    /\ Ymd(base) = <<2024, 1, 31>>
    /\ Ymd(call.afterMonths) = <<2024, 2, 29>>

\* C2: the result of addMonthsAndDays is the date of the month step moved
\* forward by `days` calendar days, rolling into the next month or year and
\* never clamped again: 2023-01-31, months = 1, days = 7 gives 2023-03-07.
C2_DaysAfterMonths ==
    IsAdd =>
        /\ call.result = PlusDays(call.afterMonths, call.days)
        /\ (Ymd(base) = <<2023, 1, 31>> /\ call.months = 1 /\ call.days = 7
              => Ymd(call.result) = <<2023, 3, 7>>)

C2_Witness ==
    /\ IsAdd
    /\ Ymd(base) = <<2023, 1, 31>>
    /\ call.months = 1
    /\ call.days = 7
    /\ Ymd(call.result) = <<2023, 3, 7>>

\* C10: the month step lands in year y + floor((m + months) / 12) and month
\* (m + months) mod 12, also for offsets of 12 months and more.
C10_YearCarry ==
    IsAdd =>
        /\ call.afterMonths.year = base.year + ((base.month + call.months) \div 12)
        /\ call.afterMonths.month = (base.month + call.months) % 12

C10_Witness ==
    /\ IsAdd
    /\ call.months = 15
    /\ base.year = 2023
    /\ base.month = 10
    /\ call.afterMonths.year = 2025
    /\ call.afterMonths.month = 1

\* C7 as stated: whenever the month step clamps, days-then-months gives a
\* result different from addMonthsAndDays.
C7_OrderAlwaysMatters ==
    IsAdd /\ Clamps =>
        addDaysThenMonths(base, call.months, call.days) # call.result

\* C7 as amended: whenever the month step clamps, days >= 1 and the day
\* increment alone stays inside the base month, days-then-months gives a
\* result different from addMonthsAndDays.
C7_OrderMatters ==
    (/\ IsAdd
     /\ Clamps
     /\ call.days >= 1
     /\ base.date + call.days <= LastDayOfMonth(base.year, base.month))
        => addDaysThenMonths(base, call.months, call.days) # call.result

C7_Witness ==
    /\ IsAdd
    /\ Clamps
    /\ Ymd(base) = <<2023, 1, 29>>
    /\ call.months = 1
    /\ call.days = 2
    /\ Ymd(call.result) = <<2023, 3, 2>>
    /\ Ymd(addDaysThenMonths(base, call.months, call.days)) = <<2023, 2, 28>>

IsCompute == call.op = "computeExpiry"

\* C5: for an unlimited period computeExpiry returns the base instant with
\* its year replaced by 2099: same month, day-of-month and time of day, also
\* for a base on 29 February.
C5_UnlimitedSentinel ==
    IsCompute /\ call.parsed.unlimited =>
        call.result = [base EXCEPT !.year = 2099]

\* ------------------------------------------------------------------------
\* Reference reading of a period text, used to state the properties
\* ------------------------------------------------------------------------
IsParse == call.op = "parsePeriod"

RECURSIVE Pow10(_)
Pow10(n) == IF n = 0 THEN 1 ELSE 10 * Pow10(n - 1)

RECURSIVE SumOver(_, _)
SumOver(S, f) ==
    IF S = {} THEN 0
    ELSE LET e == CHOOSE e \in S : TRUE
         IN  f[e] + SumOver(S \ {e}, f)

\* The integers of a text: <<i, j>> such that txt[i..j] is a maximal run of
\* digits.
Integers1(txt) ==
    {r \in (1..Len(txt)) \X (1..Len(txt)) :
        /\ r[1] <= r[2]
        /\ \A k \in r[1]..r[2] : txt[k] \in Digits
        /\ (r[1] = 1 \/ txt[r[1] - 1] \notin Digits)
        /\ (r[2] = Len(txt) \/ txt[r[2] + 1] \notin Digits)}

\* The occurrences of '<integer><unit>' in a text.
Occurrences(txt, unit) ==
    {r \in Integers1(txt) :
        /\ r[2] + Len(unit) <= Len(txt)
        /\ \A k \in 1..Len(unit) : txt[r[2] + k] = unit[k]}

ValueOf(txt, r) ==
    SumOver(r[1]..r[2],
            [k \in r[1]..r[2] |-> DigitVal(txt[k]) * Pow10(r[2] - k)])

SumOfOccurrences(txt, unit) ==
    LET occ == Occurrences(txt, unit)
    IN  SumOver(occ, [r \in occ |-> ValueOf(txt, r)])

Blank == {"sp", "nbsp", "zwsp", "zwnj", "zwj"}

\* The raw string holds the marker, its three characters separated by
\* nothing but blank characters.
HoldsMarker(raw) ==
    /\ raw # Null
    /\ \E i, j, k \in 1..Len(raw) :
          /\ i < j /\ j < k
          /\ raw[i] = "mu" /\ raw[j] = "je" /\ raw[k] = "han"
          /\ \A h \in (i + 1)..(k - 1) : h # j => raw[h] \in Blank

Zero == [unlimited |-> FALSE, months |-> 0, days |-> 0]

\* C3: without the unlimited marker, months is the sum of the integers of
\* all '<integer>gae-wol' occurrences and days the sum of the integers of all
\* '<integer>il' occurrences of the normalized text; repeated units add up.
C3_UnitsAccumulate ==
    IsParse /\ ~Includes(NormalizedText(period), UnlimitedMarker) =>
        /\ call.result.unlimited = FALSE
        /\ call.result.months = SumOfOccurrences(NormalizedText(period), MonthUnit)
        /\ call.result.days = SumOfOccurrences(NormalizedText(period), DayUnit)
        /\ (period = Label12M3M => call.result.months = 15 /\ call.result.days = 0)
        /\ (period = Label3M7D => call.result.months = 3 /\ call.result.days = 7)

C3_Witness ==
    /\ IsParse
    /\ period = Label12M3M
    /\ call.result = [unlimited |-> FALSE, months |-> 15, days |-> 0]

\* C4: a string that holds the unlimited marker parses to
\* {unlimited: true, months: 0, days: 0}, whatever blanks and unit phrases
\* surround the marker.
C4_UnlimitedWins ==
    IsParse /\ (HoldsMarker(period)
                  \/ Includes(NormalizedText(period), UnlimitedMarker)) =>
        call.result = [unlimited |-> TRUE, months |-> 0, days |-> 0]

C4_Witness ==
    /\ IsParse
    /\ period = <<"mu", "je", "han", "1", "gae", "wol">>
    /\ call.result = [unlimited |-> TRUE, months |-> 0, days |-> 0]

\* C8: parsePeriod returns a PeriodSpec for every input, null and the empty
\* string included; an input with neither a unit occurrence nor the marker
\* gives {unlimited: false, months: 0, days: 0}, so a unit without an
\* integer in front of it counts for nothing.
C8_Total ==
    IsParse =>
        /\ call.result \in [unlimited : BOOLEAN, months : Nat, days : Nat]
        /\ (period \in {Null, <<>>, <<"x", "sp", "x">>} => call.result = Zero)
        /\ ((/\ ~Includes(NormalizedText(period), UnlimitedMarker)
             /\ Occurrences(NormalizedText(period), MonthUnit) = {}
             /\ Occurrences(NormalizedText(period), DayUnit) = {})
               => call.result = Zero)

C8_Witness ==
    /\ IsParse
    /\ period = <<"x", "gae", "wol">>
    /\ call.result = Zero

\* The strings that differ from s by one blank inserted or removed, or by
\* one digit 3 written in full width or back.
Variants(s) ==
    IF s = Null THEN {}
    ELSE {SubSeq(s, 1, i) \o <<c>> \o SubSeq(s, i + 1, Len(s)) :
              i \in 0..Len(s), c \in Blank}
         \cup {SubSeq(s, 1, i - 1) \o SubSeq(s, i + 1, Len(s)) :
                  i \in {k \in 1..Len(s) : s[k] \in Blank}}
         \cup {[s EXCEPT ![i] = "fw3"] : i \in {k \in 1..Len(s) : s[k] = "3"}}
         \cup {[s EXCEPT ![i] = "3"] : i \in {k \in 1..Len(s) : s[k] = "fw3"}}

\* C9: inserting or removing a blank (whitespace, zero-width space or
\* joiner) anywhere in the input, or writing a digit in full width, does not
\* change what parsePeriod returns.
C9_NormalizationInvariant ==
    IsParse => \A v \in Variants(period) : parsePeriod(v) = call.result

\* ------------------------------------------------------------------------
\* Preview and persisted expiry
\* ------------------------------------------------------------------------
\* handlePurchase has computed the row to insert from the very instant the
\* preview was computed from.
CommitOnPreviewInstant == pc = "insertEnrollment" /\ commitNow = previewBase

\* C6 as stated: for every label of the catalog and the same base instant,
\* the previewed expiry string is the pass_expired_at that is written.
C6_PreviewIsPersisted ==
    CommitOnPreviewInstant => pendingInsert.pass_expired_at = previewExpired

\* C6 as amended: for every label of the catalog but the unlimited one and
\* the same base instant, the previewed expiry string is the pass_expired_at
\* that is written; for the unlimited label the preview is the label itself
\* and the row gets a YYYY-MM-DD date.
C6_PreviewIsPersistedUnlessUnlimited ==
    CommitOnPreviewInstant =>
        IF selected.period = LabelUnlimited
        THEN /\ previewExpired = LabelUnlimited
             /\ Len(pendingInsert.pass_expired_at) = 10
             /\ pendingInsert.pass_expired_at[5] = "-"
             /\ pendingInsert.pass_expired_at[8] = "-"
        ELSE pendingInsert.pass_expired_at = previewExpired

C6_Witness ==
    /\ CommitOnPreviewInstant
    /\ selected.period = Label3M7D
    /\ tz = 0
    /\ Ymd(now) = <<2023, 1, 31>>
    /\ previewExpired = <<"2", "0", "2", "3", "-", "0", "5", "-", "0", "8">>
    /\ pendingInsert.pass_expired_at = previewExpired

\* ------------------------------------------------------------------------
\* PeriodSpec and computeExpiry
\* ------------------------------------------------------------------------
\* C11: what parsePeriod returns is a PeriodSpec: months and days are
\* integers >= 0, and unlimited implies months = 0 and days = 0.
C11_PeriodSpecInvariant ==
    IsParse =>
        /\ call.result.months \in Nat
        /\ call.result.days \in Nat
        /\ (call.result.unlimited =>
               call.result.months = 0 /\ call.result.days = 0)

C11_Witness ==
    /\ IsParse
    /\ period = <<"7", "il", "mu", "je", "han">>
    /\ call.result.unlimited
    /\ call.result.days = 0

\* C12: when the parse is not unlimited, computeExpiry(raw, base) is
\* addMonthsAndDays(base, p.months, p.days) with p = parsePeriod(raw).
C12_ExpiryIsAddedDuration ==
    IsCompute /\ ~call.parsed.unlimited =>
        call.result = addMonthsAndDays(base, call.parsed.months, call.parsed.days)

C12_Witness ==
    /\ IsCompute
    /\ period = Label3M7D
    /\ call.parsed = [unlimited |-> FALSE, months |-> 3, days |-> 7]
    /\ Ymd(base) = <<2023, 1, 31>>
    /\ Ymd(call.result) = <<2023, 5, 7>>

\* C13: for a malformed or empty period string computeExpiry returns the
\* base instant itself: same date, same time of day.
C13_MalformedIsZeroLength ==
    IsCompute /\ period \in Malformed =>
        /\ call.parsed = Zero
        /\ call.result = base

C13_Witness ==
    /\ IsCompute
    /\ period = <<"gae", "wol">>
    /\ Ymd(base) = <<2024, 3, 31>>
    /\ call.result = base

\* C14: addMonthsAndDays keeps the hour, minute, second and millisecond of
\* the base through the month step and through the day increment.
TimeOfDay(d) == <<d.hours, d.minutes, d.seconds, d.ms>>

AtCommit == pc = "insertEnrollment"

\* Months and days of the labels of the catalog, read off the labels.
RefMonths(label) ==
    CASE label = Label3M7D -> 3 [] label = Label6M1M -> 7
      [] label = Label12M3M -> 15 [] label = Label1M -> 1

RefDays(label) == IF label = Label3M7D THEN 7 ELSE 0

\* The month step on the reference calendar.
RefMonthStep(d, m) ==
    LET y  == d.year + ((d.month + m) \div 12)
        mo == (d.month + m) % 12
    IN  [d EXCEPT !.year = y, !.month = mo,
                  !.date = Min(d.date, LastDayOfMonth(y, mo))]

\* The KST calendar day of a local instant, local time being tz hours ahead
\* of UTC with tz <= 9.
RefKstDay(d) == IF d.hours + (9 - tz) >= 24 THEN NextDay(d) ELSE d

\* The expiry date string of a limited label, from the reference calendar.
RefExpiryString(label, b) ==
    LET e == RefKstDay(PlusDays(RefMonthStep(b, RefMonths(label)),
                                RefDays(label)))
    IN  DateString(e.year, e.month + 1, e.date)

\* The commit-time day does not exist in its target month.
CommitClamps ==
    commitNow.date >
        LET t == commitNow.month + RefMonths(selected.period)
        IN  LastDayOfMonth(commitNow.year + (t \div 12), t % 12)

DayChanged == Ymd(commitNow) # Ymd(previewBase)

\* The expiry persisted is computed at commit, after the transfer, from the
\* clock as it stands then, and the memo is computed again only when the
\* selected pass changes.
FreshAtCommit ==
    /\ [](AtCommit =>
            /\ transfers >= 1
            /\ (selected.period # LabelUnlimited =>
                  pendingInsert.pass_expired_at
                      = RefExpiryString(selected.period, commitNow)))
    /\ [][commitNow' # commitNow => pc = "selectUser" /\ commitNow' = now]_vars
    /\ [][previewExpired' # previewExpired => selected' # selected]_vars

RunOver == pc = "idle" /\ attempts >= 1

\* C17 as stated: whichever collaborator call fails, a run of handlePurchase
\* still evaluates computeExpiry for the purchase, and the preview keeps its
\* value.
C17_ExpiryAlwaysEvaluated ==
    /\ RunOver => commitNow # NoDate
    /\ previewExpired = PreviewExpired(selected.period, previewBase, tz)

\* C17 as amended: a failed gas sponsorship or transfer ends handlePurchase
\* before computeExpiry is evaluated and writes nothing; a failed users
\* lookup does not stop it: computeExpiry is evaluated on the clock and the
\* row is sent; in every case the preview keeps its value.
C17_OnlyLookupFailureGoesOn ==
    [][/\ (pc \in {"grantGas", "waitForReceipt", "sendTransaction"}
             /\ pc' = "idle"
           => /\ "failed" \in alerts'
              /\ commitNow' = commitNow
              /\ pendingInsert' = pendingInsert
              /\ enrollments' = enrollments
              /\ previewExpired' = previewExpired)
       /\ (pc = "selectUser" /\ pc' # "selectUser"
           => /\ pc' = "insertEnrollment"
              /\ commitNow' = now
              /\ pendingInsert'.pass_type = selected.name
              /\ Len(pendingInsert'.pass_expired_at) = 10
              /\ previewExpired' = previewExpired)]_vars

C17_Witness ==
    /\ AtCommit
    /\ userError
    /\ commitNow = now
    /\ pendingInsert.ref_code = "null"
    /\ Len(pendingInsert.pass_expired_at) = 10
    /\ previewExpired = PreviewExpired(selected.period, previewBase, tz)

\* The order of the steps of handlePurchase.
PurchaseSteps ==
    {<<"idle", "grantGas">>, <<"grantGas", "waitForReceipt">>,
     <<"grantGas", "sendTransaction">>, <<"waitForReceipt", "sendTransaction">>,
     <<"sendTransaction", "selectUser">>, <<"selectUser", "insertEnrollment">>,
     <<"insertEnrollment", "idle">>,
     <<"grantGas", "idle">>, <<"waitForReceipt", "idle">>,
     <<"sendTransaction", "idle">>}

\* C18: the steps of handlePurchase go guard, gas sponsorship, transfer,
\* insert: past the guard a wallet is connected and the balance covers the
\* price, the transfer is sent only when the gas step is over, and a row is
\* inserted and onPurchased called only after a transfer went through.
C18_PurchaseOrder ==
    /\ [](/\ (pc # "idle" => connected /\ ~insufficient /\ loading)
          /\ (pc \in {"selectUser", "insertEnrollment"} =>
                transfers >= 1 /\ txHash # "")
          /\ Len(enrollments) <= transfers
          /\ purchased <= transfers)
    /\ [][/\ (pc' # pc => <<pc, pc'>> \in PurchaseSteps)
          /\ (pc' = "sendTransaction" /\ pc # pc' => gasStepMsg' = "")
          /\ (transfers' # transfers => pc = "sendTransaction")
          /\ (enrollments' # enrollments \/ purchased' # purchased
                => pc = "insertEnrollment" /\ transfers >= 1)]_vars

C18_Witness ==
    /\ pc = "idle"
    /\ connected
    /\ transfers = 1
    /\ Len(enrollments) = 1
    /\ purchased = 1

\* C19: a transfer that went through is followed by a saved enrollments
\* row, and the success modal and onPurchased come only once the row is
\* saved.
C19_SavedBeforeSuccess ==
    /\ (showSuccessModal \/ purchased >= 1 => Len(enrollments) >= 1)
    /\ (RunOver /\ transfers >= 1 => Len(enrollments) >= 1)

\* ------------------------------------------------------------------------
\* POST /api/register
\* ------------------------------------------------------------------------
AllDone == \A r \in Requests : req[r].pc = "done"

\* The requests are for new wallets, different from each other, and share
\* no email.
DistinctNewUsers ==
    /\ \A r \in Requests : req[r].wallet_address.addr \in NewAddrs
    /\ \A r1, r2 \in Requests :
          r1 # r2 =>
            /\ req[r1].wallet_address.addr # req[r2].wallet_address.addr
            /\ (req[r1].email = "" \/ req[r1].email # req[r2].email)

\* C20: when two requests for distinct new wallets have run, in whatever
\* interleaving, both have answered "registered", their ref_codes differ,
\* and neither made more than two inserts.
C20_BothRegistered ==
    AllDone /\ DistinctNewUsers =>
        /\ \A r \in Requests :
              /\ req[r].response.status = 200
              /\ req[r].response.message = "registered"
              /\ req[r].inserts <= 2
        /\ \A r1, r2 \in Requests :
              r1 # r2 => req[r1].response.ref_code # req[r2].response.ref_code

\* C21: the table users never holds two rows with the same lower-cased
\* wallet address, whatever the interleaving of the requests.
C21_OneRowPerWallet ==
    Cardinality({users[i].wallet_address.addr : i \in 1..Len(users)})
        = Len(users)

\* n is the largest number of the codes MK<digits> of the table, StartNum
\* when there is none.
IsMaxNum(n) ==
    /\ n >= StartNum
    /\ \A i \in 1..Len(users) : RefNumber(users[i].ref_code) <= n
    /\ n = StartNum
         \/ \E i \in 1..Len(users) : RefNumber(users[i].ref_code) = n

Generates(r) ==
    /\ req[r].pc \in {"generate", "generateRetry"}
    /\ req'[r].pc \in {"insert", "insertRetry"}

\* C22: the code generateNextReferralCode returns is MK followed by the
\* largest number of the existing codes plus one, and is the ref_code of no
\* existing row, however many rows there are.
C22_NextCodeIsMaxPlusOne ==
    [][\A r \in Requests :
          Generates(r) =>
            /\ IsMaxNum(RefNumber(req'[r].ref_code) - 1)
            /\ req'[r].ref_code = RefCode(RefNumber(req'[r].ref_code))
            /\ ~RefCodeTaken(req'[r].ref_code)]_vars

\* Row i is the user of the request's wallet address, letter case apart.
HasWallet(i, r) == users[i].wallet_address.addr = req[r].wallet_address.addr

HasEmail(i, r) == req[r].email # "" /\ users[i].email = req[r].email

\* The request is for somebody who is a user already.
KnownUser(r) ==
    /\ req[r].wallet_address # NoWallet
    /\ \E i \in 1..Len(users) : HasWallet(i, r) \/ HasEmail(i, r)

\* The row the request is answered with: the one of the wallet, and the one
\* of the email when the wallet has none.
AnsweredWith(i, r) ==
    \/ HasWallet(i, r)
    \/ /\ HasEmail(i, r)
       /\ \A j \in 1..Len(users) : ~HasWallet(j, r)

\* C23: with requests sent one after the other, a request for a wallet
\* address (letter case apart; stored lower-cased) or else an email that a
\* user has already is answered with that user's id and ref_code and
\* inserts nothing, so the table stays as it is; a request without
\* wallet_address is answered 400 and inserts nothing.
C23_SequentialIdempotent ==
    /\ [](\A i \in 1..Len(users) : ~users[i].wallet_address.upper)
    /\ [](\A r \in Requests :
            req[r].pc = "done" =>
              /\ (req[r].wallet_address = NoWallet =>
                    req[r].response.status = 400 /\ req[r].inserts = 0)
              /\ (req[r].response.message = "already registered" =>
                    /\ req[r].inserts = 0
                    /\ \E i \in 1..Len(users) :
                          /\ AnsweredWith(i, r)
                          /\ req[r].response.id = users[i].id
                          /\ req[r].response.ref_code = users[i].ref_code))
    /\ [][\A r \in Requests :
            req'[r] # req[r]
              /\ (KnownUser(r) \/ req[r].wallet_address = NoWallet)
            => /\ users' = users
               /\ req'[r].pc \in {"selectWallet", "selectEmail", "done"}
               /\ (req'[r].pc = "done" /\ KnownUser(r) =>
                     /\ req'[r].response.status = 200
                     /\ req'[r].response.message = "already registered")]_vars

C23_Witness ==
    /\ AllDone
    /\ req[1].wallet_address = [addr |-> 9001, upper |-> TRUE]
    /\ req[2].wallet_address = [addr |-> 9001, upper |-> FALSE]
    /\ req[1].response.message = "registered"
    /\ req[2].response.message = "already registered"
    /\ req[2].response.id = req[1].response.id
    /\ req[2].response.ref_code = req[1].response.ref_code
    /\ req[2].inserts = 0
    /\ Len(users) = MaxSeedRows + 1
    /\ users[Len(users)].wallet_address = [addr |-> 9001, upper |-> FALSE]

\* ------------------------------------------------------------------------
\* doStart and doStop
\* ------------------------------------------------------------------------
LastUpsert == upserts[Len(upserts)]

Upserted == Len(upserts') = Len(upserts) + 1

\* C24: onRunningChange and startBot / stopBot are called only in the step
\* in which the upsert of enabled has been saved, with the value saved; an
\* upsert that fails is followed by neither and by the failure alert; a
\* startBot / stopBot promise that settles changes nothing.
C24_ReportOnlyAfterSaved ==
    /\ [][runningChanges' # runningChanges \/ botCalls' # botCalls
          => /\ Upserted
             /\ LastUpsert'.outcome = "saved"
             /\ bot_settings'[LastUpsert'.ref_code] = LastUpsert'.enabled
             /\ runningChanges'
                  = Append(runningChanges, LastUpsert'.enabled = "true")
             /\ botCalls'
                  = Append(botCalls, IF LastUpsert'.enabled = "true"
                                     THEN "startBot" ELSE "stopBot")]_vars
    /\ [][Upserted /\ LastUpsert'.outcome # "saved"
          => /\ runningChanges' = runningChanges
             /\ botCalls' = botCalls
             /\ (IF LastUpsert'.enabled = "true" THEN "start failed"
                 ELSE "stop failed") \in botAlerts']_vars
    /\ [][pendingCalls' < pendingCalls
          => UNCHANGED <<bot_settings, upserts, runningChanges, botCalls,
                         busy, botPc, botAlerts, showStartModal,
                         showStopModal>>]_vars

\* What doStart asks for, read off the props.
StartAllowed ==
    /\ refCode # ""
    /\ hasApi
    /\ instId # ""
    /\ coinQty \in GoodQtys

StartClicked ==
    /\ Len(clicks') = Len(clicks) + 1
    /\ clicks'[Len(clicks')] = "start"

\* C25: a call of doStart with an empty refCode, without API, with an empty
\* instId or with a coinQty that is not a number >= 0.001 sends no upsert,
\* calls neither onRunningChange nor startBot and leaves busy alone; so
\* enabled = true is upserted only with API, instrument and such a
\* quantity.
C25_StartGuards ==
    /\ [][StartClicked /\ ~StartAllowed
          => UNCHANGED <<bot_settings, upserts, runningChanges, botCalls,
                         pendingCalls, busy, botPc>>]_vars
    /\ [][StartClicked /\ StartAllowed
          => busy' /\ botPc' = [op |-> "start", refCode |-> refCode]]_vars
    /\ [][Upserted /\ LastUpsert'.enabled = "true"
          => /\ LastUpsert'.ref_code # ""
             /\ hasApi
             /\ instId # ""
             /\ coinQty \in GoodQtys]_vars

C25_Witness ==
    /\ clicks = <<"start">>
    /\ coinQty = QtyString(<<"0", ".", "0", "0", "1">>)
    /\ hasApi
    /\ instId # ""
    /\ upserts = <<[ref_code |-> "MK1001", enabled |-> "true",
                    outcome |-> "saved"]>>
    /\ bot_settings["MK1001"] = "true"
    /\ runningChanges = <<TRUE>>
    /\ botCalls = <<"startBot">>

====
